---- MODULE Spec2Model ----
(***************************************************************************)
(* Model of experiments/medical/ukbb/sem_vi/base_sem_experiment.py:        *)
(*   CustomELBO      - the ELBO wrapper that retains the last traces       *)
(*   SVIExperiment   - training_step / validation_step / test_step         *)
(*   BaseVISEM       - infer / counterfactual                              *)
(* Two specifications: Spec drives the SVI experiment, SpecSEM drives the  *)
(* inference and counterfactual procedures of the structural causal model. *)
(***************************************************************************)
EXTENDS Integers, Sequences, FiniteSets, TLC

VARIABLES
    hparams,        \* SVIExperiment.hparams: validate, num_svi_particles
    trace_storage,  \* CustomELBO.trace_storage: 'model' and 'guide' slots
    last_traces,    \* the pair returned by the last CustomELBO._get_trace call
    pc,             \* position of the running step: idle / print / loss / failed
    cur,            \* the step in progress: kind, prepared batch, particles left, and
                    \* the particles' losses summed (the loss times num_svi_particles)
    ret,            \* outcome of the last finished step
    n_steps,        \* steps started so far
    n_reached,      \* training_step calls that reached svi.step
    n_updates,      \* optimizer (parameter update) steps executed
    tracker,        \* number of add_text entries in logger.experiment
    sem             \* the BaseVISEM call in progress or last finished

vars == <<hparams, trace_storage, last_traces, pc, cur, ret, n_steps, n_reached,
          n_updates, tracker, sem>>

svi_vars == <<hparams, trace_storage, last_traces, pc, cur, ret, n_steps, n_reached,
              n_updates, tracker>>

(***************************************************************************)
(* Bounds                                                                  *)
(***************************************************************************)
MaxSteps == 2          \* steps of the experiment in one run
MaxSviParticles == 2   \* largest hparams.num_svi_particles
MaxCfParticles == 2    \* largest num_particles of counterfactual

(***************************************************************************)
(* Floats: a log-probability or a loss is a number or NaN.                 *)
(***************************************************************************)
NaN == [nan |-> TRUE, v |-> 0]

Num(n) == [nan |-> FALSE, v |-> n]

isnan(f) == f.nan

Sub(a, b) == IF a.nan \/ b.nan THEN NaN ELSE Num(a.v - b.v)

Add(a, b) == IF a.nan \/ b.nan THEN NaN ELSE Num(a.v + b.v)

\* the values a site's log_prob_sum takes in the model
LogProbs == {Num(-1), Num(-2), NaN}

ModelSites == {"x", "age", "sex", "ventricle_volume", "brain_volume", "z"}

GuideSites == {"z"}

\* the site log-probabilities of the model traces drawn here: every site at
\* Num(-1) but for at most one, which takes any value of LogProbs
ModelLogProbs ==
    {[s \in ModelSites |-> IF s = d THEN v ELSE Num(-1)] : d \in ModelSites, v \in LogProbs}

GuideLogProbs == [GuideSites -> LogProbs]

None == [kind |-> "None"]

(***************************************************************************)
(* Traces. A model trace carries the value of its observed x site and the  *)
(* log_prob_sum of every site; a guide trace the log_prob_sum of z. step   *)
(* is the step whose loss computation produced the trace.                  *)
(***************************************************************************)
ModelTrace(step, x, lp) == [kind |-> "model", step |-> step, x |-> x, lp |-> lp]

GuideTrace(step, lp) == [kind |-> "guide", step |-> step, lp |-> lp]

\* CustomELBO.__init__
CustomELBO_init == [model |-> None, guide |-> None]

\* a _get_trace that fills the slots once and never overwrites them
CustomELBO_get_trace_keep_first(storage, model_trace, guide_trace) ==
    [storage |-> IF storage.model = None
                 THEN [model |-> model_trace, guide |-> model_trace]
                 ELSE storage,
     ret |-> [model |-> model_trace, guide |-> guide_trace]]

\* CustomELBO._get_trace, given the pair super()._get_trace produced:
\* the new trace_storage and the returned pair
CustomELBO_get_trace(storage, model_trace, guide_trace) ==
    LET s1 == [storage EXCEPT !.model = model_trace]
        s2 == [s1 EXCEPT !.guide = model_trace]
    IN  [storage |-> s2, ret |-> [model |-> model_trace, guide |-> guide_trace]]

\* SVIExperiment.get_trace_metrics
get_trace_metrics(storage) ==
    LET model == storage.model
        guide == storage.guide
    IN  [k \in {"log p(x)", "log p(age)", "log p(sex)", "log p(ventricle_volume)",
                "log p(brain_volume)", "log p(z) - log q(z)", "p(z)", "q(z)"} |->
            CASE k = "log p(x)" -> model.lp["x"]
              [] k = "log p(age)" -> model.lp["age"]
              [] k = "log p(sex)" -> model.lp["sex"]
              [] k = "log p(ventricle_volume)" -> model.lp["sex"]
              [] k = "log p(brain_volume)" -> model.lp["sex"]
              [] k = "log p(z) - log q(z)" -> Sub(model.lp["z"], guide.lp["z"])
              [] k = "p(z)" -> model.lp["z"]
              [] k = "q(z)" -> guide.lp["z"]]

\* raw batches of the data loader: image intensity in [0, 1], one covariate each
Images == {0, 1}

Covariates == {1}

RawBatches == [image : Images, age : Covariates, sex : Covariates,
               ventricle_volume : Covariates, brain_volume : Covariates]

\* the draws of torch.rand_like in [0, 1), in halves
Noise == {0, 1}

\* SVIExperiment.prep_batch; x is counted in halves
prep_batch(batch, noise) ==
    [x |-> batch.image * 255 * 2 + noise,
     age |-> batch.age, sex |-> batch.sex,
     ventricle_volume |-> batch.ventricle_volume,
     brain_volume |-> batch.brain_volume]

\* the loss of one particle: -(log p(model sites) - log q(guide sites))
ParticleLoss(model_trace, guide_trace) ==
    LET p == model_trace.lp
        log_p == Add(p["x"], Add(p["age"], Add(p["sex"], Add(p["ventricle_volume"],
                     Add(p["brain_volume"], p["z"])))))
    IN  Sub(guide_trace.lp["z"], log_p)

(***************************************************************************)
(* BaseVISEM: infer and counterfactual.                                    *)
(***************************************************************************)
_required_data == {"x", "sex", "age", "ventricle_volume", "brain_volume"}

Vals == {0, 1}

\* observations with key set K; sex and age vary
ObsWith(K) ==
    {[k \in K |-> IF k = "sex" THEN s ELSE IF k = "age" THEN a ELSE 1] :
        s \in Vals, a \in Vals}

\* the observations passed in: the five keys, one key missing, one key extra
Observations ==
    ObsWith(_required_data)
        \cup UNION {ObsWith(_required_data \ {k}) : k \in _required_data}
        \cup ObsWith(_required_data \cup {"extra"})

\* the condition argument: None (the default) or a mapping of variables to values
Mapping(m) == [is_none |-> FALSE, map |-> m]

NoneMapping == [is_none |-> TRUE, map |-> <<>>]

Conditions ==
    {NoneMapping} \cup
    UNION {{Mapping(m) : m \in [K -> Vals]} :
              K \in SUBSET {"sex", "age", "ventricle_volume", "brain_volume"}}

\* samples of z, and the mappings the abstract infer_exogeneous returns
Zs == {0, 1}

NoiseKeys == {"age_base", "ventricle_volume_base", "brain_volume_base"}

Exogeneous == [NoiseKeys -> Vals]

\* d[k] = v on a dict
SetItem(d, k, v) == [j \in (DOMAIN d) \cup {k} |-> IF j = k THEN v ELSE d[j]]

\* an assertion that only asks for the required keys to be present
ObsAccepted_subset(obs) == _required_data \subseteq DOMAIN obs

\* assert set(obs.keys()) == set(_required_data)
ObsAccepted(obs) == DOMAIN obs = _required_data

\* sex fixed whatever the condition names
ConditionOnSex_always(exogeneous, obs, condition) ==
    SetItem(exogeneous, "sex", obs["sex"])

\* the exogenous state replaced by the observed sex instead of extended by it
ConditionOnSex_replace(exogeneous, obs, condition) ==
    IF "sex" \notin DOMAIN condition
    THEN [k \in {"sex"} |-> obs["sex"]]
    ELSE exogeneous

\* lines 126-127: the data the forward pass is conditioned on
ConditionOnSex(exogeneous, obs, condition) ==
    IF "sex" \notin DOMAIN condition
    THEN SetItem(exogeneous, "sex", obs["sex"])
    ELSE exogeneous

\* poutine.do(poutine.condition(sample_scm, data), data=condition): where the
\* value of each site of the forward pass comes from
Sites == {"x", "z", "sex", "age", "ventricle_volume", "brain_volume"} \cup NoiseKeys

Forward(data, condition) ==
    [v \in Sites |-> IF v \in DOMAIN condition THEN "do"
                     ELSE IF v \in DOMAIN data THEN "condition"
                     ELSE "sample"]

NoParticle == [z |-> 0, abducted |-> <<>>, data |-> <<>>, do |-> <<>>, forward |-> <<>>]

NoCall == [op |-> "none", pc |-> "idle", outcome |-> "none", obs |-> <<>>,
           condition |-> NoneMapping, num_particles |-> 0, left |-> 0,
           guide_runs |-> 0, exo_runs |-> 0, particle |-> NoParticle,
           counterfactuals |-> 0, result |-> <<>>]

\* BaseVISEM.infer. BaseVISEM keeps no state from one call to the next, so
\* a behaviour of SpecSEM is one call, made on the trained model.
infer ==
    /\ sem = NoCall
    /\ \E obs \in Observations, z \in Zs, exogeneous \in Exogeneous :
        sem' = IF ~ObsAccepted(obs)
               THEN [NoCall EXCEPT !.op = "infer", !.obs = obs,
                                   !.outcome = "AssertionError"]
               ELSE [NoCall EXCEPT !.op = "infer", !.obs = obs,
                                   !.guide_runs = 1, !.exo_runs = 1,
                                   !.particle = [NoParticle EXCEPT !.z = z,
                                                    !.abducted = exogeneous],
                                   !.outcome = "returned",
                                   !.result = SetItem(exogeneous, "z", z)]
    /\ UNCHANGED svi_vars

\* BaseVISEM.counterfactual up to the particle loop: the assertion and the one
\* trace of the guide that gives z_dist
counterfactual ==
    /\ sem = NoCall
    /\ \E obs \in Observations, condition \in Conditions, n \in 0..MaxCfParticles :
        sem' = IF ~ObsAccepted(obs)
               THEN [NoCall EXCEPT !.op = "counterfactual", !.obs = obs,
                                   !.condition = condition, !.num_particles = n,
                                   !.outcome = "AssertionError"]
               ELSE [NoCall EXCEPT !.op = "counterfactual", !.obs = obs,
                                   !.condition = condition, !.num_particles = n,
                                   !.left = n, !.guide_runs = 1,
                                   !.pc = "particles", !.outcome = "running"]
    /\ UNCHANGED svi_vars

\* one pass of the loop over particles
counterfactual_particle ==
    /\ sem.pc = "particles"
    /\ sem.left > 0
    /\ \E z \in Zs, exo \in Exogeneous :
        LET exogeneous == SetItem(exo, "z", z)
        IN  IF sem.condition.is_none
            THEN \* None has no keys(): AttributeError
                 sem' = [sem EXCEPT !.exo_runs = @ + 1, !.pc = "idle",
                                    !.outcome = "AttributeError",
                                    !.particle = [NoParticle EXCEPT !.z = z,
                                                     !.abducted = exogeneous]]
            ELSE LET data == ConditionOnSex(exogeneous, sem.obs, sem.condition.map)
                 IN  sem' = [sem EXCEPT !.exo_runs = @ + 1, !.left = @ - 1,
                                        !.counterfactuals = @ + 1,
                                        !.particle =
                                            [z |-> z, abducted |-> exogeneous,
                                             data |-> data, do |-> sem.condition.map,
                                             forward |-> Forward(data, sem.condition.map)]]
    /\ UNCHANGED svi_vars

\* the keys of the mapping returned: zip of the six names with the columns
\* of the particles' outputs
CounterfactualKeys(counterfactuals) ==
    IF counterfactuals = 0 THEN {}
    ELSE {"x", "z", "sex", "age", "ventricle_volume", "brain_volume"}

\* the return of counterfactual
counterfactual_return ==
    /\ sem.pc = "particles"
    /\ sem.left = 0
    /\ sem' = [sem EXCEPT !.pc = "idle", !.outcome = "returned",
                          !.result = [k \in CounterfactualKeys(sem.counterfactuals) |-> "mean"]]
    /\ UNCHANGED svi_vars

NextSEM ==
    \/ infer
    \/ counterfactual
    \/ counterfactual_particle
    \/ counterfactual_return

NoStep == [kind |-> "none", batch |-> prep_batch(CHOOSE b \in RawBatches : TRUE, 0),
           left |-> 0, loss |-> Num(0)]

NoRet == [outcome |-> "none"]

Init ==
    /\ hparams \in [validate : BOOLEAN, num_svi_particles : 1..MaxSviParticles]
    /\ trace_storage = CustomELBO_init
    /\ last_traces = [model |-> None, guide |-> None]
    /\ pc = "idle"
    /\ cur = NoStep
    /\ ret = NoRet
    /\ n_steps = 0
    /\ n_reached = 0
    /\ n_updates = 0
    /\ tracker = 0
    /\ sem = NoCall

\* a step starts: batch = self.prep_batch(batch)
StartStep(kind, raw, noise) ==
    /\ pc = "idle"
    /\ n_steps < MaxSteps
    /\ n_steps' = n_steps + 1
    /\ cur' = [kind |-> kind, batch |-> prep_batch(raw, noise),
               left |-> hparams.num_svi_particles, loss |-> Num(0)]
    /\ ret' = NoRet

\* training_step up to the call of svi.step
training_step ==
    \E raw \in RawBatches, noise \in Noise :
        /\ StartStep("train", raw, noise)
        /\ IF hparams.validate
           THEN pc' = "print" /\ n_reached' = n_reached
           ELSE pc' = "loss" /\ n_reached' = n_reached + 1
        /\ UNCHANGED <<hparams, trace_storage, last_traces, n_updates, tracker, sem>>

\* print_trace_updates: traces of its own, Exception on a NaN model log_prob_sum
print_trace_updates ==
    /\ pc = "print"
    /\ \E lp \in ModelLogProbs :
        IF \E s \in ModelSites : isnan(lp[s])
        THEN /\ pc' = "failed"
             /\ ret' = [outcome |-> "Exception"]
             /\ n_reached' = n_reached
        ELSE /\ pc' = "loss"
             /\ ret' = ret
             /\ n_reached' = n_reached + 1
    /\ UNCHANGED <<hparams, trace_storage, last_traces, cur, n_steps, n_updates,
                   tracker, sem>>

\* validation_step up to the call of svi.evaluate_loss
validation_step ==
    \E raw \in RawBatches, noise \in Noise :
        /\ StartStep("validation", raw, noise)
        /\ pc' = "loss"
        /\ UNCHANGED <<hparams, trace_storage, last_traces, n_reached, n_updates,
                       tracker, sem>>

\* test_step up to the call of svi.evaluate_loss
test_step ==
    \E raw \in RawBatches, noise \in Noise :
        /\ StartStep("test", raw, noise)
        /\ pc' = "loss"
        /\ UNCHANGED <<hparams, trace_storage, last_traces, n_reached, n_updates,
                       tracker, sem>>

\* one particle of the loss computation: svi_model conditioned on the batch
\* and the guide are traced, and CustomELBO._get_trace is called
get_trace ==
    /\ pc = "loss"
    /\ cur.left > 0
    /\ \E mlp \in ModelLogProbs, glp \in GuideLogProbs :
        LET model_trace == ModelTrace(n_steps, cur.batch.x, mlp)
            guide_trace == GuideTrace(n_steps, glp)
            r == CustomELBO_get_trace(trace_storage, model_trace, guide_trace)
        IN  /\ trace_storage' = r.storage
            /\ last_traces' = r.ret
            /\ cur' = [cur EXCEPT !.left = @ - 1,
                                  !.loss = Add(@, ParticleLoss(model_trace, guide_trace))]
    /\ UNCHANGED <<hparams, pc, ret, n_steps, n_reached, n_updates, tracker, sem>>

\* parameter updates of svi.step and of svi.evaluate_loss
SVI_step(updates) == updates + 1

\* an evaluation that takes a gradient step
SVI_evaluate_loss_steps(updates) == updates + 1

SVI_evaluate_loss(updates) == updates

\* a NaN loss returned as zero
TrainingStepOutcome_nan_as_zero(loss, metrics) ==
    [outcome |-> "returned", logged |-> 0,
     loss |-> IF isnan(loss) THEN Num(0) ELSE loss, metrics |-> metrics]

\* training_step after svi.step returned loss: what it logs and how it ends
TrainingStepOutcome(loss, metrics) ==
    IF isnan(loss)
    THEN [outcome |-> "ValueError", logged |-> 1, metrics |-> metrics]
    ELSE [outcome |-> "returned", logged |-> 0, loss |-> loss, metrics |-> metrics]

\* the rest of training_step: the optimizer step of svi.step, get_trace_metrics,
\* the NaN check and the return
training_step_end ==
    /\ pc = "loss"
    /\ cur.kind = "train"
    /\ cur.left = 0
    /\ n_updates' = SVI_step(n_updates)
    /\ LET o == TrainingStepOutcome(cur.loss, get_trace_metrics(trace_storage))
       IN  /\ ret' = o
           /\ tracker' = tracker + o.logged
           /\ pc' = IF o.outcome = "returned" THEN "idle" ELSE "failed"
    /\ UNCHANGED <<hparams, trace_storage, last_traces, cur, n_steps, n_reached, sem>>

\* the rest of validation_step and test_step
evaluation_step_end ==
    /\ pc = "loss"
    /\ cur.kind \in {"validation", "test"}
    /\ cur.left = 0
    /\ n_updates' = SVI_evaluate_loss(n_updates)
    /\ ret' = [outcome |-> "returned", logged |-> 0, loss |-> cur.loss,
               metrics |-> get_trace_metrics(trace_storage)]
    /\ pc' = "idle"
    /\ UNCHANGED <<hparams, trace_storage, last_traces, cur, n_steps, n_reached,
                   tracker, sem>>

Next ==
    \/ training_step
    \/ print_trace_updates
    \/ validation_step
    \/ test_step
    \/ get_trace
    \/ training_step_end
    \/ evaluation_step_end

Spec == Init /\ [][Next]_vars

SpecSEM == Init /\ [][NextSEM]_vars

(***************************************************************************)
(* Properties                                                              *)
(***************************************************************************)
StepEnded == ret.outcome \in {"returned", "ValueError"}

FiveKeys == {"x", "sex", "age", "ventricle_volume", "brain_volume"}

SixKeys == {"x", "z", "sex", "age", "ventricle_volume", "brain_volume"}

ParticleDone == sem.op = "counterfactual" /\ sem.counterfactuals > 0

\* C1: after every call of CustomELBO._get_trace the 'model' slot of the trace
\* storage holds the model trace the call returned and the 'guide' slot the
\* guide trace the call returned.
C1_StorageHoldsReturnedPair ==
    last_traces.model # None =>
        /\ trace_storage.model = last_traces.model
        /\ trace_storage.guide = last_traces.guide

\* C2: the metric 'log p(z) - log q(z)' of a step is the z log-probability of
\* the step's model trace minus that of the step's guide trace, and 'q(z)' is
\* the guide trace's z log-probability.
C2_KLTermFromGuideTrace ==
    StepEnded =>
        /\ ret.metrics["log p(z) - log q(z)"] =
               Sub(last_traces.model.lp["z"], last_traces.guide.lp["z"])
        /\ ret.metrics["q(z)"] = last_traces.guide.lp["z"]

LogPName ==
    [v \in FiveKeys |->
        CASE v = "x" -> "log p(x)"
          [] v = "age" -> "log p(age)"
          [] v = "sex" -> "log p(sex)"
          [] v = "ventricle_volume" -> "log p(ventricle_volume)"
          [] v = "brain_volume" -> "log p(brain_volume)"]

\* C3: the metric 'log p(v)' of each observed variable v is the summed
\* log-probability of the model trace's site v itself.
C3_MetricFromOwnSite ==
    StepEnded =>
        \A v \in FiveKeys : ret.metrics[LogPName[v]] = last_traces.model.lp[v]

\* C4: infer and counterfactual with an observation whose key set is not
\* exactly the five required keys fail with an assertion error before the guide
\* or infer_exogeneous runs and return nothing; with exactly the five keys the
\* check passes, and infer returns the mapping of infer_exogeneous with 'z' added.
C4_ObservationKeysChecked ==
    sem.op # "none" =>
        /\ DOMAIN sem.obs # FiveKeys =>
              /\ sem.outcome = "AssertionError"
              /\ sem.guide_runs = 0
              /\ sem.exo_runs = 0
              /\ sem.result = <<>>
        /\ DOMAIN sem.obs = FiveKeys =>
              /\ sem.outcome # "AssertionError"
              /\ sem.guide_runs = 1
        /\ (sem.op = "infer" /\ DOMAIN sem.obs = FiveKeys) =>
              /\ sem.outcome = "returned"
              /\ DOMAIN sem.result = NoiseKeys \cup {"z"}
              /\ sem.result["z"] = sem.particle.z
              /\ \A k \in NoiseKeys : sem.result[k] = sem.particle.abducted[k]

C4_Witness ==
    /\ sem.op = "infer"
    /\ sem.outcome = "AssertionError"
    /\ DOMAIN sem.obs = FiveKeys \ {"brain_volume"}

\* C5: a training_step whose loss is NaN (as when a site's log-probability is
\* NaN) returns nothing: it logs the metrics to the tracker and raises a value
\* error after its one gradient step; with a loss that is not NaN it returns
\* the loss and the metrics.
C5_NaNLossIsFatal ==
    (cur.kind = "train" /\ pc \in {"idle", "failed"} /\ ret.outcome # "Exception") =>
        /\ n_updates = n_reached
        /\ IF isnan(cur.loss) \/ \E s \in ModelSites : isnan(last_traces.model.lp[s])
           THEN /\ ret.outcome = "ValueError"
                /\ ret.logged = 1
                /\ tracker = 1
                /\ pc = "failed"
           ELSE /\ ret.outcome = "returned"
                /\ ret.loss = cur.loss
                /\ ret.metrics = get_trace_metrics(trace_storage)
                /\ tracker = 0
                /\ pc = "idle"

C5_Witness ==
    /\ cur.kind = "train"
    /\ ret.outcome = "ValueError"
    /\ isnan(last_traces.model.lp["age"])

\* C6: a training_step that completes executes exactly one gradient step and
\* validation_step and test_step none: between steps the number of parameter
\* updates is the number of training_step calls that reached the gradient
\* step, and the only change of the parameters is the one update that ends the
\* loss computation of a training step.
C6_OneGradientStepPerTrainingStep ==
    /\ [](pc \in {"idle", "failed"} => n_updates = n_reached)
    /\ [][n_updates' # n_updates =>
            /\ cur.kind = "train"
            /\ pc = "loss"
            /\ cur.left = 0
            /\ n_updates' = n_updates + 1]_vars
    /\ [][(pc = "loss" /\ pc' = "idle" /\ cur.kind = "train") =>
            n_updates' = n_updates + 1]_vars

C6_Witness ==
    /\ pc = "idle"
    /\ cur.kind = "validation"
    /\ ret.outcome = "returned"
    /\ n_updates = 1

\* C7: after a step the retained traces belong to the batch just processed:
\* the stored model trace's x site is the preprocessed x of that batch, no
\* earlier step's trace is kept, and the step's metrics are read from the
\* step's own traces.
C7_StoredTracesAreOfLastBatch ==
    StepEnded =>
        /\ trace_storage.model.kind = "model"
        /\ trace_storage.model.x = cur.batch.x
        /\ trace_storage.model.step = n_steps
        /\ trace_storage.guide.step = n_steps
        /\ last_traces.model.step = n_steps
        /\ ret.metrics["log p(x)"] = last_traces.model.lp["x"]
        /\ ret.metrics["p(z)"] = last_traces.model.lp["z"]

C7_Witness ==
    /\ StepEnded
    /\ n_steps = 2
    /\ hparams.num_svi_particles = 2

\* C8: in counterfactual, for every particle, the observed sex is added to the
\* exogenous state the forward pass is conditioned on if condition does not
\* name sex; if condition names sex it is not added and the forward pass uses
\* the intervention value for sex.
C8_SexFixedUnlessIntervened ==
    ParticleDone =>
        IF "sex" \notin DOMAIN sem.condition.map
        THEN /\ "sex" \in DOMAIN sem.particle.data
             /\ sem.particle.data["sex"] = sem.obs["sex"]
             /\ sem.particle.forward["sex"] = "condition"
        ELSE /\ "sex" \notin DOMAIN sem.particle.data
             /\ sem.particle.forward["sex"] = "do"
             /\ sem.particle.do["sex"] = sem.condition.map["sex"]

C8_Witness ==
    /\ ParticleDone
    /\ "sex" \in DOMAIN sem.condition.map
    /\ sem.condition.map["sex"] # sem.obs["sex"]

\* C9: in counterfactual, for every particle, exactly the variables named in
\* condition are overridden, the abducted noise (infer_exogeneous of the
\* particle's z, and z) reaches the forward pass unchanged, the guide is run
\* once per call and every particle draws its own z and abducts for it.
C9_ActionOverridesOnlyCondition ==
    ParticleDone =>
        /\ sem.particle.do = sem.condition.map
        /\ \A v \in Sites :
              sem.particle.forward[v] = "do" <=> v \in DOMAIN sem.condition.map
        /\ DOMAIN sem.particle.abducted = NoiseKeys \cup {"z"}
        /\ sem.particle.abducted["z"] = sem.particle.z
        /\ \A k \in DOMAIN sem.particle.abducted :
              /\ k \in DOMAIN sem.particle.data
              /\ sem.particle.data[k] = sem.particle.abducted[k]
              /\ sem.particle.forward[k] = "condition"
        /\ DOMAIN sem.particle.data \subseteq NoiseKeys \cup {"z", "sex"}
        /\ sem.guide_runs = 1
        /\ sem.exo_runs = sem.counterfactuals
        /\ sem.counterfactuals + sem.left = sem.num_particles

C9_Witness ==
    /\ ParticleDone
    /\ DOMAIN sem.condition.map = {"sex"}
    /\ sem.counterfactuals = 2
    /\ sem.outcome = "returned"

\* C10: counterfactual with a valid observation and condition omitted
\* completes like an empty intervention and returns the six keys x, z, sex,
\* age, ventricle_volume, brain_volume without raising an error.
C10_DefaultConditionCompletes ==
    (/\ sem.op = "counterfactual"
     /\ DOMAIN sem.obs = FiveKeys
     /\ sem.condition.is_none
     /\ sem.num_particles = 1
     /\ sem.pc = "idle") =>
        /\ sem.outcome = "returned"
        /\ DOMAIN sem.result = SixKeys

====
